---------------------------- MODULE Spec2Model ----------------------------
(***************************************************************************)
(* A model of notion-hugo-deploy: the incremental cache (cache_manager.py),*)
(* the media acquisition pipeline (media_handler.py), the recursive block  *)
(* tree retrieval (notion_service.py) and the sync run (notion_sync.py).   *)
(*                                                                         *)
(* Each subsystem has its own specification over the shared variables:     *)
(*   SpecPostCache   should_update_post / update_post_cache in any order   *)
(*   SpecMediaCache  get_cached_media / cache_media in any order           *)
(*   SpecCacheFile   the store saved to and loaded from the cache file     *)
(*   SpecMediaKey    normalize_media_key on pairs of references            *)
(*   SpecMedia  MediaHandler.download_media against a disk and a network   *)
(*   SpecMediaWatermark   download_media called for watermarked references *)
(*   SpecTree   NotionClient._get_page_blocks, one step per statement      *)
(*   SpecSync   main(): load cache, list posts, convert, persist           *)
(***************************************************************************)
EXTENDS Integers, Sequences, FiniteSets, TLC

VARIABLES
    cache_data,   \* CacheManager.cache_data: [last_sync, posts, media]
    recorded,     \* ghost: post id -> the datetime last given to update_post_cache
    ret,          \* the last operation called, its arguments and what it returned
    disk,         \* the static directory: site-relative path -> "complete" | "partial"
    hist,         \* the download_media calls since the last file removal / cache clear
    ncalls,       \* the number of calls made so far, where a specification bounds them
    source,       \* the remote block hierarchy: [children, page_size]
    stack,        \* the activations of fetch_children_recursively, innermost last
    tree,         \* _get_page_blocks: [status, blocks], status "idle" before the call
    failed,       \* ghost: the list calls that failed, as <<container, first index>>
    last_return,  \* ghost: the activation that returned last
    pc,           \* main(): where the run is
    run,          \* the number of the run
    cache_file,   \* the persisted cache file: [exists, data]
    remote,       \* the published documents of the source: id -> last_edited_time
    query,        \* get_published_posts: the page being parsed, has_more, next_cursor
    posts,        \* the posts parsed so far, then the list main() converts
    idx,          \* main(): the position of the conversion loop in posts
    success_count,
    log,          \* what the run logged: tallies and failure reports
    exit_code,    \* None while running
    converted,    \* ghost: the convert_post calls of this run, <<id, outcome>>
    updated,      \* ghost: the ids given to update_post_cache in this run
    loaded        \* ghost: the document records the run loaded at its start

cacheVars == <<cache_data, recorded>>
mediaVars == <<disk, hist, ncalls>>
treeVars == <<source, stack, tree, failed, last_return>>
syncVars == <<pc, run, cache_file, remote, query, posts, idx, success_count, log,
              exit_code, converted, updated, loaded>>
vars == <<cache_data, recorded, ret, disk, hist, ncalls,
          source, stack, tree, failed, last_return,
          pc, run, cache_file, remote, query, posts, idx, success_count, log,
          exit_code, converted, updated, loaded>>
nonTreeVars == <<cache_data, recorded, ret, disk, hist, ncalls, syncVars>>

-----------------------------------------------------------------------------
(* Bounds of the model.                                                    *)

MaxSec == 1        \* datetimes have wall-clock seconds 0..MaxSec
UsPerSec == 2      \* sub-second ticks per second (microseconds, scaled down)
MaxOff == 1        \* UTC offsets 0..MaxOff, in seconds of the model
MaxPageSize == 2   \* the remote source returns pages of 1..MaxPageSize children
MaxRuns == 2       \* the program is run at most MaxRuns times in a behaviour
MaxCalls == 2      \* download_media (SpecMedia) and the operations that change the
                   \* store (SpecCacheFile) are called at most MaxCalls times

-----------------------------------------------------------------------------
(* Python values.                                                          *)

None == "None"                 \* None where a string is expected
NoPath == <<>>                 \* None where a path is expected (falsy, like "")
NoTime == <<>>                 \* None where an isoformat() string is expected
NoCursor == 0                  \* None where a pagination cursor is expected
Truthy(s) == s # None /\ s # ""

EmptyMap == [x \in {} |-> None]

(* datetime: an aware datetime is its wall-clock reading and its UTC offset. *)
Datetimes == [sec : 0..MaxSec, us : 0..(UsPerSec - 1), off : 0..MaxOff]

(* aware datetimes compare by the instant they denote (wall clock - offset) *)
Instant(dt) == (dt.sec - dt.off) * UsPerSec + dt.us

(* datetime.isoformat(): "<date>T<time>[.ffffff]+HH:MM"; the fraction is     *)
(* left out when the microseconds are 0.                                    *)
isoformat(dt) ==
    <<"T", dt.sec>> \o (IF dt.us # 0 THEN <<".", dt.us>> ELSE <<>>) \o <<"+", dt.off>>

(* datetime.fromisoformat(): the inverse parse, fraction optional.          *)
fromisoformat(s) ==
    IF s[3] = "."
    THEN [sec |-> s[2], us |-> s[4], off |-> s[6]]
    ELSE [sec |-> s[2], us |-> 0, off |-> s[4]]


-----------------------------------------------------------------------------
(* Remote media references.  A URL is its raw string (raw), the stable      *)
(* identifiers the two regular expressions of the code can find in it       *)
(* (form, seg1, seg2; an identifier may be in upper case) and the extension *)
(* of the last path segment (ext, "" when it has none).  Hosted files are   *)
(* re-issued with a fresh signed query string: same identifiers, other raw. *)

Urls ==
    { [raw |-> "s3/U1/u2/a.png?sig=1", form |-> "s3", seg1 |-> "U1", seg2 |-> "u2", ext |-> ".png"],
      [raw |-> "s3/u1/u2/a.png?sig=2", form |-> "s3", seg1 |-> "u1", seg2 |-> "u2", ext |-> ".png"],
      [raw |-> "static/U3/b?sig=1", form |-> "static", seg1 |-> "U3", seg2 |-> "", ext |-> ""],
      [raw |-> "static/u3/b?sig=2", form |-> "static", seg1 |-> "u3", seg2 |-> "", ext |-> ""],
      [raw |-> "ext/c.gif", form |-> "external", seg1 |-> "", seg2 |-> "", ext |-> ".gif"] }

(* str.lower() on an identifier *)
lower(u) ==
    CASE u = "U1" -> "u1"
      [] u = "U3" -> "u3"
      [] OTHER -> u

(* hashlib.md5(url.encode()).hexdigest(): the digest of the raw string,      *)
(* taken as collision free; DigestPrefix is hexdigest()[:8].                 *)
md5(url) == <<"md5", url.raw>>
DigestPrefix(url) == <<"md5[:8]", url.raw>>

(* re.search(r"s3\..*\.amazonaws\.com/(uuid)/(uuid)/", url); a URL of form   *)
(* "s3+static" has text both patterns match (seg1, seg2 the groups of this  *)
(* one, seg3 the group of the other)                                        *)
s3_match(url) == url.form \in {"s3", "s3+static"}
(* re.search(r"secure\.notion-static\.com/(uuid)/", url) *)
static_match(url) == url.form \in {"static", "s3+static"}
(* m.group(1) of the second pattern *)
static_group(url) == IF url.form = "s3+static" THEN url.seg3 ELSE url.seg1

normalize_media_key_static_first(url) ==
    IF static_match(url)
    THEN <<"notion:", lower(static_group(url))>>
    ELSE IF s3_match(url)
         THEN <<"notion:", lower(url.seg1), "/", lower(url.seg2)>>
         ELSE <<"url:">> \o md5(url)

normalize_media_key(url) ==
    IF s3_match(url)
    THEN <<"notion:", lower(url.seg1), "/", lower(url.seg2)>>
    ELSE IF static_match(url)
         THEN <<"notion:", lower(static_group(url))>>
         ELSE <<"url:">> \o md5(url)

-----------------------------------------------------------------------------
(* CacheManager                                                            *)

EmptyCache == [last_sync |-> NoTime, posts |-> EmptyMap, media |-> EmptyMap]

should_update_post_ge(cache, post_id, last_edited) ==
    IF post_id \notin DOMAIN cache.posts
    THEN TRUE
    ELSE Instant(last_edited) >= Instant(fromisoformat(cache.posts[post_id]))

should_update_post(cache, post_id, last_edited) ==
    IF post_id \notin DOMAIN cache.posts
    THEN TRUE
    ELSE LET cached_time == fromisoformat(cache.posts[post_id])
         IN  Instant(last_edited) > Instant(cached_time)

update_post_cache(cache, post_id, last_edited) ==
    [cache EXCEPT !.posts = (post_id :> isoformat(last_edited)) @@ @]

(* a media record is a dict {"path", "last_edited_time"}; a file written by  *)
(* an older version can hold the path itself, a str                         *)
BareStr(path) == [bare |-> path]
IsStr(item) == "bare" \in DOMAIN item

(* line 70: cached_item.get("path") on a str raises AttributeError          *)
AttributeError == <<"AttributeError">>

get_cached_media_strict(cache, url, last_edited_time) ==
    LET key == normalize_media_key(url)
    IN  IF key \notin DOMAIN cache.media
        THEN NoPath
        ELSE IF Truthy(last_edited_time)
                /\ last_edited_time # cache.media[key].last_edited_time
             THEN NoPath
             ELSE cache.media[key].path

get_cached_media(cache, url, last_edited_time) ==
    LET key == normalize_media_key(url)
    IN  IF key \notin DOMAIN cache.media
        THEN NoPath
        ELSE IF IsStr(cache.media[key])
        THEN AttributeError
        ELSE LET cached_path == cache.media[key].path
                 cached_time == cache.media[key].last_edited_time
             IN  IF Truthy(last_edited_time) /\ Truthy(cached_time)
                    /\ last_edited_time # cached_time
                 THEN NoPath
                 ELSE cached_path

cache_media(cache, url, local_path, last_edited_time) ==
    LET key == normalize_media_key(url)
    IN  [cache EXCEPT !.media =
            (key :> [path |-> local_path, last_edited_time |-> last_edited_time]) @@ @]

(* update_last_sync, lines 89-92; now is datetime.now().isoformat() *)
update_last_sync(cache, now) == [cache EXCEPT !.last_sync = now]

-----------------------------------------------------------------------------
(* The cache file.  Its text is JSON: a value is null, a string, an array   *)
(* or an object (its members a function from names to values); text that    *)
(* json.load cannot decode is Invalid.                                      *)

JNull == [type |-> "null"]
JString(s) == [type |-> "string", value |-> s]
JArray == [type |-> "array"]
JObject(m) == [type |-> "object", members |-> m]
Invalid == [type |-> "invalid"]

(* json.dump(self.cache_data, f, indent=2, default=str): None is written as *)
(* null, a str as a string, a dict as an object                             *)
dump_str_null(v) == JNull

dump_str(v) == IF v = None THEN JNull ELSE JString(v)

dump_time(v) == IF v = NoTime THEN JNull ELSE JString(v)

dump_item(item) ==
    IF IsStr(item)
    THEN JString(item.bare)
    ELSE JObject([path |-> JString(item.path),
                  last_edited_time |-> dump_str(item.last_edited_time)])

json_dump(data) ==
    JObject([last_sync |-> dump_time(data.last_sync),
             posts |-> JObject([id \in DOMAIN data.posts |-> JString(data.posts[id])]),
             media |-> JObject([k \in DOMAIN data.media |-> dump_item(data.media[k])])])

(* json.load(f): null is read as None, a string as a str, an object as a dict *)
load_str(j) == IF j.type = "null" THEN None ELSE j.value

load_time(j) == IF j.type = "null" THEN NoTime ELSE j.value

load_item(j) ==
    IF j.type = "string"
    THEN BareStr(j.value)
    ELSE [path |-> j.members.path.value,
          last_edited_time |-> load_str(j.members.last_edited_time)]

(* lines 20-24: json.load and the three setdefault calls, for a text that is *)
(* an object whose posts and media, when present, are objects               *)
json_load(text) ==
    LET m == text.members
    IN  [last_sync |-> IF "last_sync" \in DOMAIN m THEN load_time(m.last_sync) ELSE NoTime,
         posts |-> IF "posts" \in DOMAIN m
                   THEN [id \in DOMAIN m.posts.members |-> m.posts.members[id].value]
                   ELSE EmptyMap,
         media |-> IF "media" \in DOMAIN m
                   THEN [k \in DOMAIN m.media.members |-> load_item(m.media.members[k])]
                   ELSE EmptyMap]

(* what raises inside the try of lines 18-28: open() (line 19), json.load on *)
(* undecodable text (line 20), setdefault on a value that is not a dict      *)
(* (line 22), len() of a member that is null (line 26)                       *)
read_raises(file) ==
    \/ file.open = "error"
    \/ file.text.type # "object"
    \/ \E name \in {"posts", "media"} :
          /\ name \in DOMAIN file.text.members
          /\ file.text.members[name].type = "null"

NoFile == [exists |-> FALSE]
WrittenFile(text) == [exists |-> TRUE, open |-> "ok", text |-> text]

(* _load_cache: the store, and whether an exception left the call *)
load_cache_strict(file) ==
    IF ~ file.exists
    THEN [data |-> EmptyCache, raised |-> FALSE]
    ELSE IF read_raises(file)
    THEN [data |-> EmptyCache, raised |-> TRUE]
    ELSE [data |-> json_load(file.text), raised |-> FALSE]

load_cache(file) ==
    IF file.exists /\ ~ read_raises(file)
    THEN [data |-> json_load(file.text), raised |-> FALSE]
    ELSE [data |-> EmptyCache, raised |-> FALSE]

(* save_cache, lines 39-45: the file after a write that completed *)
save_cache(cache) == WrittenFile(json_dump(cache))

(* where the end of the process can fall in save_cache: before open(), after *)
(* open(..., 'w') has emptied the file and while json.dump writes the text,  *)
(* after the text is written                                                 *)
KillPoints == {"before_open", "writing", "written"}

(* the file a save_cache that was cut short leaves: the write goes to the    *)
(* cache file itself, so between open() and the end of json.dump the file    *)
(* holds a proper prefix of the text, which is not JSON text                 *)
save_cache_killed(file, cache, at) ==
    CASE at = "before_open" -> file
      [] at = "writing" -> WrittenFile(Invalid)
      [] at = "written" -> save_cache(cache)

-----------------------------------------------------------------------------
(* SpecPostCache: should_update_post and update_post_cache called in any    *)
(* order on a store that starts empty (_load_cache with no file).           *)

PostIds == {"p1", "p2"}

InitCommon ==
    /\ cache_data = EmptyCache
    /\ recorded = EmptyMap
    /\ ret = [op |-> "init"]
    /\ disk = EmptyMap
    /\ hist = <<>>
    /\ ncalls = 0

NoSource == [children |-> EmptyMap, page_size |-> 1]

InitSyncIdle ==
    /\ pc = "idle"
    /\ run = 0
    /\ cache_file = NoFile
    /\ remote = EmptyMap
    /\ query = [results |-> <<>>, has_more |-> FALSE, next_cursor |-> NoCursor]
    /\ posts = <<>>
    /\ idx = 1
    /\ success_count = 0
    /\ log = <<>>
    /\ exit_code = None
    /\ converted = <<>>
    /\ updated = {}
    /\ loaded = EmptyMap

InitTreeIdle ==
    /\ source = NoSource
    /\ stack = <<>>
    /\ tree = [status |-> "idle", blocks |-> <<>>]
    /\ failed = {}
    /\ last_return = [block_id |-> None]

(* the store as _load_cache leaves it with no cache file; nothing else started *)
InitIdle == InitCommon /\ InitTreeIdle /\ InitSyncIdle

UpdatePostCache ==
    \E post_id \in PostIds, last_edited \in Datetimes :
        /\ cache_data' = update_post_cache(cache_data, post_id, last_edited)
        /\ recorded' = (post_id :> last_edited) @@ recorded
        /\ ret' = [op |-> "update_post_cache", post_id |-> post_id,
                   last_edited |-> last_edited]
        /\ UNCHANGED <<mediaVars, treeVars, syncVars>>

ShouldUpdatePost ==
    \E post_id \in PostIds, last_edited \in Datetimes :
        /\ ret' = [op |-> "should_update_post", post_id |-> post_id,
                   last_edited |-> last_edited,
                   result |-> should_update_post(cache_data, post_id, last_edited)]
        /\ UNCHANGED <<cacheVars, mediaVars, treeVars, syncVars>>

NextPostCache == UpdatePostCache \/ ShouldUpdatePost

SpecPostCache == InitIdle /\ [][NextPostCache]_vars

(* C3: should_update_post(id, t) is true for an id with no record, and after *)
(* update_post_cache(id, t1) it is false for every t <= t1 and true for      *)
(* every t > t1 (timestamps compared as instants).                           *)
C3_CacheMonotonic ==
    ret.op = "should_update_post" =>
        ret.result =
            IF ret.post_id \in DOMAIN recorded
            THEN Instant(ret.last_edited) > Instant(recorded[ret.post_id])
            ELSE TRUE

(* a query at the very instant that was recorded (written with another UTC   *)
(* offset and a sub-second part) is answered false                           *)
C3_Witness ==
    /\ ret.op = "should_update_post"
    /\ ret.post_id \in DOMAIN recorded
    /\ recorded[ret.post_id] # ret.last_edited
    /\ recorded[ret.post_id].us # 0
    /\ Instant(recorded[ret.post_id]) = Instant(ret.last_edited)
    /\ ret.result = FALSE

-----------------------------------------------------------------------------
(* SpecMediaCache: get_cached_media and cache_media called in any order,    *)
(* with and without a watermark.                                            *)

Watermarks == {None, "", "v1", "v2"}

(* a site-relative path: "/<dir>/<filename>" *)
SitePath(dir, filename) == <<"/", dir, "/">> \o filename

CacheMedia ==
    \E url \in Urls, last_edited_time \in Watermarks :
        LET local_path == SitePath("images", <<url.raw>>)
        IN  /\ cache_data' = cache_media(cache_data, url, local_path, last_edited_time)
            /\ ret' = [op |-> "cache_media", url |-> url, path |-> local_path,
                       last_edited_time |-> last_edited_time]
            /\ UNCHANGED <<recorded, mediaVars, treeVars, syncVars>>

GetCachedMedia ==
    \E url \in Urls, last_edited_time \in Watermarks :
        /\ ret' = [op |-> "get_cached_media", url |-> url,
                   last_edited_time |-> last_edited_time,
                   result |-> get_cached_media(cache_data, url, last_edited_time)]
        /\ UNCHANGED <<cacheVars, mediaVars, treeVars, syncVars>>

NextMediaCache == CacheMedia \/ GetCachedMedia

SpecMediaCache == InitIdle /\ [][NextMediaCache]_vars

StoredRecord == cache_data.media[normalize_media_key(ret.url)]

(* C10 as claimed: with a record present, a supplied watermark that differs  *)
(* from the stored one (whatever is stored, also no watermark) gives absent; *)
(* no watermark supplied, or an equal one, gives the stored path.            *)
C10_AsClaimed ==
    (ret.op = "get_cached_media" /\ normalize_media_key(ret.url) \in DOMAIN cache_data.media) =>
        ret.result =
            IF Truthy(ret.last_edited_time)
               /\ ret.last_edited_time # StoredRecord.last_edited_time
            THEN NoPath
            ELSE StoredRecord.path

(* C10 amended: absent exactly when a non-empty watermark is supplied, the   *)
(* record stores a non-empty watermark, and the two differ; in every other   *)
(* case with a record present the stored path is returned; with no record    *)
(* the result is absent.                                                     *)
C10_StaleOnlyWhenBothPresent ==
    ret.op = "get_cached_media" =>
        IF normalize_media_key(ret.url) \notin DOMAIN cache_data.media
        THEN ret.result = NoPath
        ELSE LET stale == /\ ret.last_edited_time \notin {None, ""}
                          /\ StoredRecord.last_edited_time \notin {None, ""}
                          /\ ret.last_edited_time # StoredRecord.last_edited_time
             IN  ret.result = IF stale THEN NoPath ELSE StoredRecord.path

(* a record stored without a watermark is returned to a lookup that supplies one *)
C10_Witness ==
    /\ ret.op = "get_cached_media"
    /\ normalize_media_key(ret.url) \in DOMAIN cache_data.media
    /\ StoredRecord.last_edited_time = None
    /\ ret.last_edited_time = "v2"
    /\ ret.result = StoredRecord.path
    /\ ret.result # NoPath

-----------------------------------------------------------------------------
(* SpecMediaKey: normalize_media_key applied to two references.             *)

(* more references: the identifiers in other combinations, text that both   *)
(* patterns match, and an external URL whose text contains a key            *)
KeyUrls ==
    Urls \cup
    { [raw |-> "s3/u2/u1/a.png", form |-> "s3", seg1 |-> "u2", seg2 |-> "u1", ext |-> ".png"],
      [raw |-> "s3/u1/u1/a.png", form |-> "s3", seg1 |-> "u1", seg2 |-> "u1", ext |-> ".png"],
      [raw |-> "s3/U3/u3/a", form |-> "s3", seg1 |-> "U3", seg2 |-> "u3", ext |-> ""],
      [raw |-> "static/u1/b", form |-> "static", seg1 |-> "u1", seg2 |-> "", ext |-> ""],
      [raw |-> "static/u2/b.mp4", form |-> "static", seg1 |-> "u2", seg2 |-> "", ext |-> ".mp4"],
      [raw |-> "s3/u1/u2/static/u3/c", form |-> "s3+static", seg1 |-> "u1", seg2 |-> "u2",
       seg3 |-> "u3", ext |-> ""],
      [raw |-> "s3/U3/u1/static/U1/c", form |-> "s3+static", seg1 |-> "U3", seg2 |-> "u1",
       seg3 |-> "U1", ext |-> ""],
      [raw |-> "ext/notion:u3", form |-> "external", seg1 |-> "", seg2 |-> "", ext |-> ""],
      [raw |-> "ext/s3/u1", form |-> "external", seg1 |-> "", seg2 |-> "", ext |-> ""] }

NormalizeMediaKey ==
    \E url1 \in KeyUrls, url2 \in KeyUrls :
        /\ ret' = [op |-> "normalize_media_key", url1 |-> url1, url2 |-> url2,
                   key1 |-> normalize_media_key(url1),
                   key2 |-> normalize_media_key(url2)]
        /\ UNCHANGED <<cacheVars, mediaVars, treeVars, syncVars>>

NextMediaKey == NormalizeMediaKey

SpecMediaKey == InitIdle /\ [][NextMediaKey]_vars

(* the first of the three forms a reference has: two hosted identifiers, one *)
(* legacy identifier, or neither                                             *)
FirstForm(url) ==
    CASE url.form \in {"s3", "s3+static"} -> "two-segment"
      [] url.form = "static" -> "single-segment"
      [] OTHER -> "hashed"

(* the namespace a key is in, read off the key itself *)
KeyNamespace(key) ==
    IF key[1] = "url:"
    THEN "hashed"
    ELSE IF key[1] = "notion:" /\ \E i \in 1..Len(key) : key[i] = "/"
         THEN "two-segment"
         ELSE "single-segment"

(* C18: the key of a reference depends on the reference alone and lies in    *)
(* the namespace of the first form the reference has (two-segment hosted,    *)
(* else single-segment legacy, else hashed URL); keys of references of       *)
(* different forms are never equal.                                          *)
C18_KeyNamespacesDisjoint ==
    ret.op = "normalize_media_key" =>
        /\ KeyNamespace(ret.key1) = FirstForm(ret.url1)
        /\ KeyNamespace(ret.key2) = FirstForm(ret.url2)
        /\ ret.url1 = ret.url2 => ret.key1 = ret.key2
        /\ FirstForm(ret.url1) # FirstForm(ret.url2) => ret.key1 # ret.key2
        /\ (/\ FirstForm(ret.url1) = "two-segment"
            /\ FirstForm(ret.url2) = "two-segment"
            /\ lower(ret.url1.seg1) = lower(ret.url2.seg1)
            /\ lower(ret.url1.seg2) = lower(ret.url2.seg2))
           => ret.key1 = ret.key2

(* a reference both patterns match gets the two-segment key, which differs   *)
(* from the key of the legacy reference with the same single identifier      *)
C18_Witness ==
    /\ ret.op = "normalize_media_key"
    /\ ret.url1.form = "s3+static"
    /\ ret.url2.form = "static"
    /\ lower(ret.url1.seg3) = lower(ret.url2.seg1)
    /\ KeyNamespace(ret.key1) = "two-segment"
    /\ KeyNamespace(ret.key2) = "single-segment"
    /\ ret.key1 # ret.key2

-----------------------------------------------------------------------------
(* MediaHandler                                                            *)

MediaTypes == {"image", "video", "audio", "other"}

(* what the download of lines 64-70 can do: succeed; fail in requests.get or *)
(* raise_for_status (nothing written); fail in open() (nothing written);     *)
(* fail while streaming (the target file exists with part of the content).   *)
Outcomes == {"ok", "request_error", "open_error", "stream_error"}

OrJpg(ext) == IF ext = "" THEN ".jpg" ELSE ext

_generate_filename(url) ==
    IF static_match(url)
    THEN <<lower(static_group(url)), OrJpg(url.ext)>>
    ELSE DigestPrefix(url) \o <<OrJpg(url.ext)>>

(* os.path.join(self.static_dir, cached_path.lstrip('/')): the disk is keyed *)
(* by the path below the static directory                                    *)
OnDisk(dsk, site_path) == Tail(site_path) \in DOMAIN dsk

(* lines 27-36: the cached path when the cache has one and its file exists   *)
cache_hit_never(cache, dsk, url) == NoPath

cache_hit(cache, dsk, url) ==
    LET cached_path == get_cached_media(cache, url, None)
    IN  IF cached_path # NoPath /\ OnDisk(dsk, cached_path)
        THEN cached_path
        ELSE NoPath

(* lines 42-52: the subdirectory of a media type, "" for an unknown one      *)
save_dir_images(media_type) ==
    IF media_type \in {"image", "video", "audio"} THEN "images" ELSE ""

save_dir(media_type) ==
    CASE media_type = "image" -> "images"
      [] media_type = "video" -> "videos"
      [] media_type = "audio" -> "audio"
      [] OTHER -> ""

(* lines 85-87: any exception is logged and the original URL returned        *)
download_failed_caching(cache, dsk, url, relative_path, outcome) ==
    [result |-> <<url.raw>>, requests |-> 1,
     cache |-> cache_media(cache, url, relative_path, None),
     disk |-> dsk, raised |-> FALSE]

download_failed(cache, dsk, url, relative_path, outcome) ==
    [result |-> <<url.raw>>,
     requests |-> 1,
     cache |-> cache,
     disk |-> IF outcome = "stream_error"
              THEN (Tail(relative_path) :> "partial") @@ dsk
              ELSE dsk,
     raised |-> FALSE]

(* download_media(url, media_type): the value returned, the requests issued, *)
(* the store and the disk afterwards, and whether an exception left the call *)
(* (_optimize_image, lines 72-74, catches its own exceptions and leaves a     *)
(* complete file in place, so it changes nothing the model holds)            *)
download_media(cache, dsk, url, media_type, outcome) ==
    LET cached_path == cache_hit(cache, dsk, url)
        filename == _generate_filename(url)
        relative_path == SitePath(save_dir(media_type), filename)
    IN  IF get_cached_media(cache, url, None) = AttributeError
        THEN [result |-> <<url.raw>>, requests |-> 0, cache |-> cache,
              disk |-> dsk, raised |-> FALSE]
        ELSE IF cached_path # NoPath
        THEN [result |-> cached_path, requests |-> 0, cache |-> cache,
              disk |-> dsk, raised |-> FALSE]
        ELSE IF save_dir(media_type) = ""
        THEN [result |-> <<url.raw>>, requests |-> 0, cache |-> cache,
              disk |-> dsk, raised |-> FALSE]
        ELSE IF OnDisk(dsk, relative_path)
        THEN [result |-> relative_path, requests |-> 0,
              cache |-> cache_media(cache, url, relative_path, None),
              disk |-> dsk, raised |-> FALSE]
        ELSE IF outcome = "ok"
        THEN [result |-> relative_path, requests |-> 1,
              cache |-> cache_media(cache, url, relative_path, None),
              disk |-> (Tail(relative_path) :> "complete") @@ dsk,
              raised |-> FALSE]
        ELSE download_failed(cache, dsk, url, relative_path, outcome)

-----------------------------------------------------------------------------
(* SpecMedia: download_media called for any reference and media type, the   *)
(* download ending in any of its outcomes; between calls a file may be      *)
(* removed from the static directory and the cache may be cleared (the      *)
(* cache file deleted between runs).                                        *)

DownloadMedia ==
    \E url \in Urls, media_type \in MediaTypes, outcome \in Outcomes :
        LET r == download_media(cache_data, disk, url, media_type, outcome)
            call == [op |-> "download_media", url |-> url, media_type |-> media_type,
                     outcome |-> IF r.requests = 0 THEN "none" ELSE outcome,
                     result |-> r.result, requests |-> r.requests, raised |-> r.raised,
                     media_before |-> cache_data.media, disk_before |-> disk]
        IN  /\ ncalls < MaxCalls
            /\ ncalls' = ncalls + 1
            /\ cache_data' = r.cache
            /\ disk' = r.disk
            /\ ret' = call
            /\ hist' = IF hist = <<>> THEN <<call>> ELSE <<hist[Len(hist)], call>>
            /\ UNCHANGED <<recorded, treeVars, syncVars>>

RemoveFile ==
    \E path \in DOMAIN disk :
        /\ disk' = [q \in DOMAIN disk \ {path} |-> disk[q]]
        /\ hist' = <<>>
        /\ ret' = [op |-> "remove_file"]
        /\ UNCHANGED <<cacheVars, ncalls, treeVars, syncVars>>

ClearCache ==
    /\ cache_data.media # EmptyMap
    /\ cache_data' = [cache_data EXCEPT !.media = EmptyMap]
    /\ hist' = <<>>
    /\ ret' = [op |-> "clear_cache"]
    /\ UNCHANGED <<recorded, disk, ncalls, treeVars, syncVars>>

NextMedia == DownloadMedia \/ RemoveFile \/ ClearCache

SpecMedia == InitIdle /\ [][NextMedia]_vars

IsLocalPath(result) == result # <<>> /\ result[1] = "/"

(* at the entry of the last call the cache held a record for the reference  *)
HadRecord == normalize_media_key(ret.url) \in DOMAIN ret.media_before
RecordBefore == ret.media_before[normalize_media_key(ret.url)]

(* C7: two download_media calls in a row for the same reference and media    *)
(* type, nothing removed or cleared in between, the first returning a local  *)
(* path: the second returns that path and issues no request.  And a call     *)
(* that finds a cache record whose file is on disk issues no request and     *)
(* returns the recorded path.                                                *)
C7_Idempotent ==
    /\ (/\ Len(hist) = 2
        /\ hist[1].url = hist[2].url
        /\ hist[1].media_type = hist[2].media_type
        /\ IsLocalPath(hist[1].result))
       => (hist[2].result = hist[1].result /\ hist[2].requests = 0)
    /\ (/\ ret.op = "download_media"
        /\ HadRecord
        /\ Tail(RecordBefore.path) \in DOMAIN ret.disk_before)
       => (ret.requests = 0 /\ ret.result = RecordBefore.path)

(* the first call downloaded the file, the second is served from the cache   *)
C7_Witness ==
    /\ Len(hist) = 2
    /\ hist[1].url = hist[2].url
    /\ hist[1].media_type = hist[2].media_type
    /\ hist[1].requests = 1
    /\ IsLocalPath(hist[1].result)
    /\ hist[2].result = hist[1].result
    /\ hist[2].requests = 0

(* the last call attempted the download and it failed                        *)
DownloadFailed ==
    /\ ret.op = "download_media"
    /\ ret.outcome \in Outcomes \ {"ok"}

(* C8: download_media never raises; when the download fails it returns the   *)
(* original reference and leaves the media records as they were.             *)
C8_FailureReturnsReference ==
    ret.op = "download_media" =>
        /\ ~ ret.raised
        /\ DownloadFailed =>
              /\ ret.result = <<ret.url.raw>>
              /\ cache_data.media = ret.media_before

C8_Witness ==
    /\ DownloadFailed
    /\ ret.media_before # EmptyMap
    /\ ret.result = <<ret.url.raw>>

(* C9 as claimed: a record exists for the reference and its file is absent:  *)
(* the call does not raise, and when it returns a local path it is the path  *)
(* the record named.                                                         *)
C9_SameTargetAsRecord ==
    (/\ ret.op = "download_media"
     /\ HadRecord
     /\ ~ (Tail(RecordBefore.path) \in DOMAIN ret.disk_before))
    => /\ ~ ret.raised
       /\ IsLocalPath(ret.result) => ret.result = RecordBefore.path

(* C20 as claimed: references that normalize to the key of the call's        *)
(* reference get the same filename; so when the cache holds no record and    *)
(* the file of such a reference is in the directory of the media type, the   *)
(* call finds it: no request, a local path returned.                         *)
C20_FilenameReproducible ==
    ret.op = "download_media" =>
        \A u \in Urls :
            normalize_media_key(u) = normalize_media_key(ret.url) =>
                /\ _generate_filename(u) = _generate_filename(ret.url)
                /\ (/\ ~ HadRecord
                    /\ save_dir(ret.media_type) # ""
                    /\ Tail(SitePath(save_dir(ret.media_type), _generate_filename(u)))
                          \in DOMAIN ret.disk_before)
                   => (ret.requests = 0 /\ IsLocalPath(ret.result))

(* the last call was served from the cache: a record whose file is on disk  *)
ServedFromRecord ==
    /\ HadRecord
    /\ Tail(RecordBefore.path) \in DOMAIN ret.disk_before

(* the subdirectory the claim gives each kind *)
OwnSubdirectory == [image |-> "images", video |-> "videos", audio |-> "audio"]

SiteRelative(path) ==
    /\ Len(path) > 3
    /\ path[1] = "/"
    /\ path[2] \in {"images", "videos", "audio"}
    /\ path[3] = "/"

(* C21 as claimed: a local path returned for kind image, video or audio lies *)
(* under that kind's own subdirectory, whatever calls came before.           *)
C21_UnderOwnSubdirectory ==
    (/\ ret.op = "download_media"
     /\ ret.media_type \in {"image", "video", "audio"}
     /\ IsLocalPath(ret.result))
    => /\ SiteRelative(ret.result)
       /\ ret.result[2] = OwnSubdirectory[ret.media_type]

(* C21 amended: such a path is site-root-relative under one of the three     *)
(* media subdirectories; it lies under the kind's own subdirectory when the  *)
(* file was downloaded or found at the computed target path, and is the      *)
(* recorded path when a cache record whose file exists was hit.              *)
C21_UnderOwnOrRecordedSubdirectory ==
    (/\ ret.op = "download_media"
     /\ ret.media_type \in {"image", "video", "audio"}
     /\ IsLocalPath(ret.result))
    => /\ SiteRelative(ret.result)
       /\ IF ServedFromRecord
          THEN ret.result = RecordBefore.path
          ELSE ret.result[2] = OwnSubdirectory[ret.media_type]

(* a reference stored as an image is asked for as a video: the call returns  *)
(* the recorded path under /images/                                          *)
C21_Witness ==
    /\ ret.op = "download_media"
    /\ ret.media_type = "video"
    /\ ServedFromRecord
    /\ ret.requests = 0
    /\ SiteRelative(ret.result)
    /\ ret.result[2] = "images"

(* C25 as claimed: a local path that download_media returns names a file     *)
(* that a completed download wrote; a file left by a download that failed    *)
(* midway is never returned, or recorded in the cache, without a new fetch.  *)
C25_OnlyCompleteFilesAccepted ==
    (ret.op = "download_media" /\ IsLocalPath(ret.result)) =>
        /\ Tail(ret.result) \in DOMAIN disk
        /\ disk[Tail(ret.result)] = "complete"

-----------------------------------------------------------------------------
(* SpecMediaWatermark: the caller holds, with each reference, the watermark *)
(* the source gives for it (the last-edited time of the block that holds    *)
(* it) and calls download_media, which has no parameter for it.  Images     *)
(* only; a download succeeds or the request fails.                          *)

SourceWatermarks == {"v1", "v2"}

AcquireMedia ==
    \E url \in Urls, outcome \in {"ok", "request_error"},
       watermark \in SourceWatermarks :
        LET r == download_media(cache_data, disk, url, "image", outcome)
        IN  /\ ncalls < MaxCalls
            /\ ncalls' = ncalls + 1
            /\ cache_data' = r.cache
            /\ disk' = r.disk
            /\ ret' = [op |-> "download_media", url |-> url, media_type |-> "image",
                       watermark |-> watermark,
                       outcome |-> IF r.requests = 0 THEN "none" ELSE outcome,
                       result |-> r.result, requests |-> r.requests, raised |-> r.raised,
                       media_before |-> cache_data.media, disk_before |-> disk]
            /\ UNCHANGED <<recorded, hist, treeVars, syncVars>>

NextMediaWatermark == AcquireMedia \/ RemoveFile

SpecMediaWatermark == InitIdle /\ [][NextMediaWatermark]_vars

(* C19 as claimed: a call that downloaded the file of a reference with       *)
(* source watermark w leaves the record {path, watermark = w}; and a call    *)
(* with watermark w that finds a record with another watermark (its file on  *)
(* disk) treats it as stale: it issues a request.                            *)
C19_WatermarkConsultedAndRecorded ==
    /\ (ret.op = "download_media" /\ ret.outcome = "ok") =>
          /\ normalize_media_key(ret.url) \in DOMAIN cache_data.media
          /\ cache_data.media[normalize_media_key(ret.url)].last_edited_time
                = ret.watermark
    /\ (/\ ret.op = "download_media"
        /\ save_dir(ret.media_type) # ""
        /\ HadRecord
        /\ Tail(RecordBefore.path) \in DOMAIN ret.disk_before
        /\ RecordBefore.last_edited_time # ret.watermark)
       => ret.requests = 1

-----------------------------------------------------------------------------
(* SpecCacheFile: a CacheManager over a cache file.  The file starts in any *)
(* of the conditions a run can find it in; the store is loaded from it      *)
(* (__init__), changed by update_post_cache, cache_media and                *)
(* update_last_sync, looked up, and saved.                                  *)

LegacyKey == <<"notion:", "u3">>
LegacyPath == <<"/", "images", "/", "u3", ".jpg">>

(* a file of an older version: a media record that is the bare path *)
LegacyFile ==
    WrittenFile(JObject(
        [posts |-> JObject("p1" :> JString(<<"T", 0, "+", 0>>)),
         media |-> JObject(LegacyKey :> JString(LegacyPath))]))

(* the files load cannot use: missing, cannot be opened, not JSON text (also *)
(* a write that was cut short), JSON that is not an object, an object with   *)
(* null where a mapping belongs                                              *)
UnusableFiles ==
    { NoFile,
      [exists |-> TRUE, open |-> "error", text |-> Invalid],
      WrittenFile(Invalid),
      WrittenFile(JArray),
      WrittenFile(JNull),
      WrittenFile(JObject([posts |-> JNull])) }

CacheFiles ==
    UnusableFiles
    \cup { WrittenFile(JObject(EmptyMap)),
           WrittenFile(JObject([last_sync |-> JNull])),
           LegacyFile }

(* the inputs of the operations *)
FileTimes == { dt \in Datetimes : dt.sec = 0 /\ dt.off = 0 }
FileUrls == { url \in Urls : url.form # "s3" }
FileWatermarks == {None, "v1"}

InitCacheFile ==
    /\ InitCommon
    /\ InitTreeIdle
    /\ pc = "idle"
    /\ run = 0
    /\ cache_file \in CacheFiles
    /\ remote = EmptyMap
    /\ query = [results |-> <<>>, has_more |-> FALSE, next_cursor |-> NoCursor]
    /\ posts = <<>>
    /\ idx = 1
    /\ success_count = 0
    /\ log = <<>>
    /\ exit_code = None
    /\ converted = <<>>
    /\ updated = {}
    /\ loaded = EmptyMap

fileFrame == <<recorded, disk, hist, treeVars, pc, run, remote, query, posts, idx,
               success_count, log, exit_code, converted, updated, loaded>>

(* CacheManager(): lines 10-13 *)
LoadCache ==
    LET r == load_cache(cache_file)
    IN  /\ cache_data' = r.data
        /\ ret' = [op |-> "load_cache", file |-> cache_file, raised |-> r.raised,
                   saved |-> IF ret.op = "save_cache" THEN <<ret.store>> ELSE <<>>]
        /\ UNCHANGED <<cache_file, ncalls, fileFrame>>

SaveCache ==
    /\ cache_file' = save_cache(cache_data)
    /\ ret' = [op |-> "save_cache", store |-> cache_data]
    /\ UNCHANGED <<cache_data, ncalls, fileFrame>>

StorePost ==
    \E post_id \in PostIds, last_edited \in FileTimes :
        /\ ncalls < MaxCalls
        /\ ncalls' = ncalls + 1
        /\ cache_data' = update_post_cache(cache_data, post_id, last_edited)
        /\ ret' = [op |-> "update_post_cache"]
        /\ UNCHANGED <<cache_file, fileFrame>>

StoreMedia ==
    \E url \in FileUrls, last_edited_time \in FileWatermarks :
        /\ ncalls < MaxCalls
        /\ ncalls' = ncalls + 1
        /\ cache_data' = cache_media(cache_data, url,
                                     SitePath("images", _generate_filename(url)),
                                     last_edited_time)
        /\ ret' = [op |-> "cache_media"]
        /\ UNCHANGED <<cache_file, fileFrame>>

UpdateLastSync ==
    \E now \in FileTimes :
        /\ ncalls < MaxCalls
        /\ ncalls' = ncalls + 1
        /\ cache_data' = update_last_sync(cache_data, isoformat(now))
        /\ ret' = [op |-> "update_last_sync"]
        /\ UNCHANGED <<cache_file, fileFrame>>

LookupMedia ==
    \E url \in FileUrls, last_edited_time \in FileWatermarks :
        /\ ret' = [op |-> "get_cached_media", url |-> url,
                   last_edited_time |-> last_edited_time,
                   result |-> get_cached_media(cache_data, url, last_edited_time)]
        /\ UNCHANGED <<cache_data, cache_file, ncalls, fileFrame>>

(* the process ends inside save_cache (lines 41-42) and the program is        *)
(* started again: CacheManager() loads what the file was left as             *)
SaveCacheKilled ==
    \E at \in KillPoints :
        LET left == save_cache_killed(cache_file, cache_data, at)
        IN  /\ cache_file' = left
            /\ cache_data' = load_cache(left).data
            /\ ret' = [op |-> "save_killed", at |-> at, previous |-> cache_file,
                       store |-> cache_data]
            /\ UNCHANGED <<ncalls, fileFrame>>

NextCacheFile ==
    \/ LoadCache \/ SaveCache \/ StorePost \/ StoreMedia \/ UpdateLastSync
    \/ LookupMedia \/ SaveCacheKilled

SpecCacheFile == InitCacheFile /\ [][NextCacheFile]_vars

(* C11: save_cache followed by loading the file reproduces the store: the    *)
(* file save_cache has just written loads to the store in memory, and a load *)
(* that follows a save leaves the store that was saved (same document        *)
(* records, same media records, same last_sync).                             *)
C11_SaveLoadRoundTrip ==
    /\ ret.op = "save_cache" =>
          /\ ~ load_cache(cache_file).raised
          /\ load_cache(cache_file).data = cache_data
    /\ (ret.op = "load_cache" /\ ret.saved # <<>>) =>
          /\ cache_data = ret.saved[1]
          /\ cache_data.posts = ret.saved[1].posts
          /\ cache_data.media = ret.saved[1].media
          /\ cache_data.last_sync = ret.saved[1].last_sync

(* a store with a document record, a media record without a watermark and a  *)
(* last_sync was saved and loaded back                                       *)
C11_Witness ==
    /\ ret.op = "load_cache"
    /\ ret.saved # <<>>
    /\ cache_data.posts # EmptyMap
    /\ cache_data.last_sync = NoTime
    /\ \E k \in DOMAIN cache_data.media :
          /\ ~ IsStr(cache_data.media[k])
          /\ cache_data.media[k].last_edited_time = None

(* C12: _load_cache never raises; when the file is missing, cannot be        *)
(* opened, is not JSON text, is not a JSON object or has null where a        *)
(* mapping belongs, the store is the empty default.                          *)
C12_LoadNeverAborts ==
    ret.op = "load_cache" =>
        /\ ~ ret.raised
        /\ ret.file \in UnusableFiles => cache_data = EmptyCache

(* the file holds text that is not JSON: the store is the empty default       *)
C12_Witness ==
    /\ ret.op = "load_cache"
    /\ ret.file = WrittenFile(Invalid)
    /\ ~ ret.raised
    /\ cache_data = EmptyCache

(* C13 as claimed: with a media record that is a bare path string,           *)
(* get_cached_media does not fail and returns that string as the cached      *)
(* path; and loading a file with such a record keeps the file's records.     *)
C13_LegacyRecordTolerated ==
    /\ (/\ ret.op = "get_cached_media"
        /\ normalize_media_key(ret.url) \in DOMAIN cache_data.media
        /\ IsStr(cache_data.media[normalize_media_key(ret.url)]))
       => /\ ret.result # AttributeError
          /\ ret.result = cache_data.media[normalize_media_key(ret.url)].bare
    /\ (ret.op = "load_cache" /\ ret.file = LegacyFile) =>
          /\ DOMAIN cache_data.posts = {"p1"}
          /\ DOMAIN cache_data.media = {LegacyKey}

(* C23 as claimed: save_cache is atomic with respect to the end of the       *)
(* process: wherever the process ends inside it, the cache file is the       *)
(* complete previous file or the complete new one.                           *)
C23_SaveAtomic ==
    ret.op = "save_killed" => cache_file \in {ret.previous, save_cache(ret.store)}

-----------------------------------------------------------------------------
(* The remote source: "list the children of a container, paginated by       *)
(* cursor" (client.blocks.children.list).  A hierarchy gives every          *)
(* container its ordered children; the source serves them page_size at a    *)
(* time, a cursor being the index of the next child.                        *)

Root == "page"

Hierarchies ==
    { (Root :> <<"A", "B", "C">>) @@ ("B" :> <<"D", "E">>),
      (Root :> <<"A", "B", "C">>) @@ ("B" :> <<"D", "E">>) @@ ("D" :> <<"F">>),
      (Root :> <<"A", "B">>) @@ ("A" :> <<"C", "D", "E">>),
      (Root :> <<>>) }

Sources == [children : Hierarchies, page_size : 1..MaxPageSize]

ChildrenOf(src, c) == IF c \in DOMAIN src.children THEN src.children[c] ELSE <<>>

Min(a, b) == IF a < b THEN a ELSE b

(* the block object the source returns for a child *)
Block(src, b) == [id |-> b, has_children |-> ChildrenOf(src, b) # <<>>]

(* a source that answers the last page of a container with has_more = true  *)
(* and no next_cursor                                                        *)
no_cursor(src) == "no_cursor" \in DOMAIN src /\ src.no_cursor

(* one successful response *)
list_children(src, block_id, start_cursor) ==
    LET ch == ChildrenOf(src, block_id)
        first == IF start_cursor = NoCursor THEN 1 ELSE start_cursor
        last == Min(first + src.page_size - 1, Len(ch))
    IN  [results |-> [i \in 1..(last - first + 1) |-> Block(src, ch[first + i - 1])],
         has_more |-> last < Len(ch) \/ no_cursor(src),
         next_cursor |-> IF last < Len(ch) THEN last + 1 ELSE NoCursor]

-----------------------------------------------------------------------------
(* NotionClient._get_page_blocks / fetch_children_recursively, one action    *)
(* per statement; an activation is a record on the stack.                    *)

(* lines 335-337 *)
NewFrame(block_id) ==
    [block_id |-> block_id, collected |-> <<>>, local_has_more |-> TRUE,
     local_cursor |-> NoCursor, at |-> "loop", items |-> <<>>,
     resp |-> [has_more |-> FALSE, next_cursor |-> NoCursor], failed_at |-> 0]

Top == stack[Len(stack)]
SetTop(frame) == [stack EXCEPT ![Len(stack)] = frame]

(* lines 366-368: an exception in the loop body is logged and the loop left  *)
on_list_error_raise == "raise"

on_list_error == "break"

(* line 362 *)
collect_first(collected_blocks, b) == <<b>> \o collected_blocks

collect(collected_blocks, b) == Append(collected_blocks, b)

(* lines 354-360: b['children'] is what the recursive call returned, or []   *)
(* when it raised                                                            *)
child_result_empty_on_failure(frame) ==
    IF frame.at = "raise" \/ frame.failed_at # 0 THEN <<>> ELSE frame.collected

child_result(frame) == IF frame.at = "raise" THEN <<>> ELSE frame.collected

(* line 373 *)
GetPageBlocks ==
    /\ tree.status = "idle"
    /\ stack = <<>>
    /\ stack' = <<NewFrame(Root)>>
    /\ tree' = [status |-> "running", blocks |-> <<>>]
    /\ UNCHANGED <<nonTreeVars, source, failed, last_return>>

(* lines 339-349: the list call answers *)
ListChildren ==
    /\ stack # <<>>
    /\ Top.at = "loop" /\ Top.local_has_more
    /\ LET resp == list_children(source, Top.block_id, Top.local_cursor)
       IN  stack' = SetTop([Top EXCEPT !.items = resp.results,
                                       !.resp = [has_more |-> resp.has_more,
                                                 next_cursor |-> resp.next_cursor],
                                       !.at = "items"])
    /\ UNCHANGED <<nonTreeVars, source, tree, failed, last_return>>

(* lines 339-348, 366-368: the list call raises *)
ListChildrenFails ==
    /\ stack # <<>>
    /\ Top.at = "loop" /\ Top.local_has_more
    /\ LET first == IF Top.local_cursor = NoCursor THEN 1 ELSE Top.local_cursor
       IN  /\ stack' = SetTop([Top EXCEPT !.at = on_list_error, !.failed_at = first])
           /\ failed' = failed \cup {<<Top.block_id, first>>}
    /\ UNCHANGED <<nonTreeVars, source, tree, last_return>>

(* lines 351-353, 362: a block without children is appended *)
AppendLeaf ==
    /\ stack # <<>>
    /\ Top.at = "items" /\ Top.items # <<>>
    /\ ~ Head(Top.items).has_children
    /\ stack' = SetTop([Top EXCEPT !.collected = collect(@, Head(Top.items)),
                                   !.items = Tail(@)])
    /\ UNCHANGED <<nonTreeVars, source, tree, failed, last_return>>

(* lines 353-355: the recursive call for a block that has children *)
CallChild ==
    /\ stack # <<>>
    /\ Top.at = "items" /\ Top.items # <<>>
    /\ Head(Top.items).has_children
    /\ stack' = Append(stack, NewFrame(Head(Top.items).id))
    /\ UNCHANGED <<nonTreeVars, source, tree, failed, last_return>>

(* lines 364-365: the page is done *)
EndOfPage ==
    /\ stack # <<>>
    /\ Top.at = "items" /\ Top.items = <<>>
    /\ stack' = SetTop([Top EXCEPT !.local_has_more = Top.resp.has_more,
                                   !.local_cursor = Top.resp.next_cursor,
                                   !.at = "loop"])
    /\ UNCHANGED <<nonTreeVars, source, tree, failed, last_return>>

Leaving(frame) ==
    \/ frame.at \in {"break", "raise"}
    \/ frame.at = "loop" /\ ~ frame.local_has_more

Returned(frame) ==
    [block_id |-> frame.block_id, value |-> frame.collected,
     failed_at |-> frame.failed_at, raised |-> frame.at = "raise"]

(* line 370 into lines 355-362: the activation returns to the one that       *)
(* called it, which stores the children in the block and appends the block   *)
ReturnToParent ==
    /\ Len(stack) > 1
    /\ Leaving(Top)
    /\ LET parent == stack[Len(stack) - 1]
           b == [id |-> Head(parent.items).id, has_children |-> TRUE,
                 children |-> child_result(Top)]
       IN  stack' = SubSeq(stack, 1, Len(stack) - 2)
                    \o <<[parent EXCEPT !.collected = collect(@, b), !.items = Tail(@)]>>
    /\ last_return' = Returned(Top)
    /\ UNCHANGED <<nonTreeVars, source, tree, failed>>

(* lines 370, 373: the outermost activation returns to _get_page_blocks      *)
ReturnBlocks ==
    /\ Len(stack) = 1
    /\ Leaving(Top)
    /\ stack' = <<>>
    /\ tree' = [status |-> IF Top.at = "raise" THEN "raised" ELSE "returned",
                blocks |-> Top.collected]
    /\ last_return' = Returned(Top)
    /\ UNCHANGED <<nonTreeVars, source, failed>>

TreeStep ==
    \/ ListChildren \/ ListChildrenFails \/ AppendLeaf \/ CallChild
    \/ EndOfPage \/ ReturnToParent \/ ReturnBlocks

(* SpecTree: _get_page_blocks on any of the hierarchies and page sizes, any  *)
(* list call failing.                                                        *)
InitTree ==
    /\ InitCommon
    /\ InitSyncIdle
    /\ source \in Sources
    /\ stack = <<>>
    /\ tree = [status |-> "idle", blocks |-> <<>>]
    /\ failed = {}
    /\ last_return = [block_id |-> None]

NextTree == GetPageBlocks \/ TreeStep

SpecTree == InitTree /\ [][NextTree]_vars

(* SpecTreeFair: the same, the sources including one that says has_more =    *)
(* true with no next_cursor (its page has no children: with children the     *)
(* list collected grows without bound), and the call keeps running: the      *)
(* loop is sequential code, a step that can be taken is taken.               *)
NoCursorSources == { [children |-> (Root :> <<>>), page_size |-> 1, no_cursor |-> TRUE] }

InitTreeFair ==
    /\ InitCommon
    /\ InitSyncIdle
    /\ source \in Sources \cup NoCursorSources
    /\ stack = <<>>
    /\ tree = [status |-> "idle", blocks |-> <<>>]
    /\ failed = {}
    /\ last_return = [block_id |-> None]

SpecTreeFair == InitTreeFair /\ [][NextTree]_vars /\ WF_vars(NextTree)

-----------------------------------------------------------------------------
(* What the claims about tree retrieval compare the result with.            *)

(* the complete tree below a container, in source order *)
RECURSIVE FullTree(_, _)
FullTree(src, c) ==
    LET ch == ChildrenOf(src, c)
    IN  [i \in 1..Len(ch) |->
            IF ChildrenOf(src, ch[i]) = <<>>
            THEN [id |-> ch[i], has_children |-> FALSE]
            ELSE [id |-> ch[i], has_children |-> TRUE,
                  children |-> FullTree(src, ch[i])]]

Ids(blocks) == [i \in 1..Len(blocks) |-> blocks[i].id]

(* the first index of the page of container c whose list call failed, 0 if none *)
FailedAt(c) ==
    IF \E f \in failed : f[1] = c
    THEN (CHOOSE f \in failed : f[1] = c)[2]
    ELSE 0

(* C4: when no list call fails, the blocks returned for the page are the     *)
(* complete hierarchy: every level in source order across its pages, every   *)
(* block that has children carrying its complete subtree.                    *)
C4_FullTreeInOrder ==
    (tree.status = "returned" /\ failed = {}) =>
        tree.blocks = FullTree(source, Root)

(* pages [A,B], [C] with B's children [D,E] give [A, B(children=[D,E]), C]   *)
C4_Witness ==
    /\ tree.status = "returned"
    /\ failed = {}
    /\ source.page_size = 2
    /\ tree.blocks = << [id |-> "A", has_children |-> FALSE],
                        [id |-> "B", has_children |-> TRUE,
                         children |-> << [id |-> "D", has_children |-> FALSE],
                                         [id |-> "E", has_children |-> FALSE] >>],
                        [id |-> "C", has_children |-> FALSE] >>

(* C5 as claimed: in what an activation returns, a block one of whose own    *)
(* child pages failed has an empty child list, and (the activation's own     *)
(* pages not failing) all of the container's children are there in order.    *)
C5_EmptyChildListOnFailure ==
    (last_return.block_id # None /\ ~ last_return.raised) =>
        /\ \A i \in 1..Len(last_return.value) :
              (last_return.value[i].has_children
               /\ FailedAt(last_return.value[i].id) # 0)
              => last_return.value[i].children = <<>>
        /\ last_return.failed_at = 0 =>
              Ids(last_return.value) = ChildrenOf(source, last_return.block_id)

(* C5 amended: such a block carries the children of the pages fetched before *)
(* the failing one (none when its first page failed), and all of the         *)
(* container's children are there in order.                                  *)
C5_PrefixChildListOnFailure ==
    (last_return.block_id # None /\ ~ last_return.raised) =>
        /\ \A i \in 1..Len(last_return.value) :
              (last_return.value[i].has_children
               /\ FailedAt(last_return.value[i].id) # 0)
              => Ids(last_return.value[i].children) =
                     SubSeq(ChildrenOf(source, last_return.value[i].id), 1,
                            FailedAt(last_return.value[i].id) - 1)
        /\ last_return.failed_at = 0 =>
              Ids(last_return.value) = ChildrenOf(source, last_return.block_id)

(* B's second page failed: B keeps D, and C, on a later page of the parent,  *)
(* is still there                                                            *)
C5_Witness ==
    /\ tree.status = "returned"
    /\ failed = {<<"B", 2>>}
    /\ Ids(tree.blocks) = <<"A", "B", "C">>
    /\ Ids(tree.blocks[2].children) = <<"D">>

(* C6: an activation whose list call for the page starting at index k failed *)
(* returns (does not raise) exactly the children before k, in order; and     *)
(* _get_page_blocks never raises.                                            *)
C6_PartialResultOnPageFailure ==
    /\ tree.status # "raised"
    /\ (last_return.block_id # None /\ last_return.failed_at # 0) =>
          /\ ~ last_return.raised
          /\ Ids(last_return.value) =
                 SubSeq(ChildrenOf(source, last_return.block_id), 1,
                        last_return.failed_at - 1)

(* the page's own second page failed after a first page of two blocks *)
C6_Witness ==
    /\ tree.status = "returned"
    /\ last_return.block_id = Root
    /\ last_return.failed_at = 3
    /\ Ids(tree.blocks) = <<"A", "B">>

-----------------------------------------------------------------------------
(* main() of notion_sync.py with NotionClient.get_published_posts and       *)
(* _parse_page.  HugoConverter.convert_post is a collaborator: a call       *)
(* returns True, returns False or raises; the media it downloads are the    *)
(* subject of SpecMedia and leave the document records alone.               *)

(* the published documents, in the order the source lists them (the source  *)
(* may also have none published), and their block hierarchies               *)
Documents == <<"p1", "p2">>
SyncHierarchy ==
    ("p1" :> <<"A", "B">>) @@ ("A" :> <<"C">>) @@ ("p2" :> <<"D">>)

(* last_edited_time as the source writes it: UTC, with a trailing Z *)
RemoteTime(sec, us) ==
    <<"T", sec>> \o (IF us # 0 THEN <<".", us>> ELSE <<>>) \o <<"Z">>
RemoteTimes == { RemoteTime(sec, us) : sec \in 0..MaxSec, us \in 0..(UsPerSec - 1) }

(* line 320: .replace('Z', '+00:00') *)
replace_Z(s) == SubSeq(s, 1, Len(s) - 1) \o <<"+", 0>>

(* one successful response of the documents query, lines 255-262 *)
query_data_source(start_cursor) ==
    LET first == IF start_cursor = NoCursor THEN 1 ELSE start_cursor
        last == Min(first + source.page_size - 1, Len(source.published))
    IN  [results |-> SubSeq(source.published, first, last),
         has_more |-> last < Len(source.published),
         next_cursor |-> IF last < Len(source.published) THEN last + 1 ELSE NoCursor]

(* lines 264-267, 327-329: _parse_page returns None, the page is skipped and *)
(* the loop goes on with the rest of the results                             *)
on_parse_error_drop_page(results) == <<>>

on_parse_error(results) == Tail(results)

(* lines 78-83: the components are built, CacheManager loads the file *)
Start ==
    /\ pc = "start"
    /\ cache_data' = load_cache(cache_file).data
    /\ loaded' = load_cache(cache_file).data.posts
    /\ pc' = "test_connection"
    /\ UNCHANGED <<recorded, ret, mediaVars, treeVars, run, cache_file, remote, query,
                   posts, idx, success_count, log, exit_code, converted, updated>>

Exit(code, event) ==
    /\ pc' = "exited"
    /\ exit_code' = code
    /\ log' = IF event = None THEN log ELSE Append(log, event)

(* lines 86-87 *)
TestConnection ==
    /\ pc = "test_connection"
    /\ \/ /\ pc' = "query"
          /\ UNCHANGED <<log, exit_code>>
       \/ Exit(1, <<"connection_failed">>)
    /\ UNCHANGED <<cacheVars, ret, mediaVars, treeVars, run, cache_file, remote, query,
                   posts, idx, success_count, converted, updated, loaded>>

(* lines 254-262: one page of the documents query arrives *)
QueryPosts ==
    /\ pc = "query"
    /\ query' = query_data_source(query.next_cursor)
    /\ pc' = "parse"
    /\ UNCHANGED <<cacheVars, ret, mediaVars, treeVars, run, cache_file, remote,
                   posts, idx, success_count, log, exit_code, converted, updated, loaded>>

(* lines 255-262, 276-278: the query raises; the posts parsed so far are     *)
(* dropped and [] is returned                                                *)
QueryFails ==
    /\ pc = "query"
    /\ posts' = <<>>
    /\ query' = [results |-> <<>>, has_more |-> FALSE, next_cursor |-> NoCursor]
    /\ log' = Append(log, <<"error_fetching_posts">>)
    /\ pc' = "convert"
    /\ UNCHANGED <<cacheVars, ret, mediaVars, treeVars, run, cache_file, remote,
                   idx, success_count, exit_code, converted, updated, loaded>>

(* lines 264-265, 282-321, 327-329: the page does not have the expected      *)
(* shape; _parse_page returns None and the page is skipped                   *)
ParsePageFails ==
    /\ pc = "parse"
    /\ query.results # <<>>
    /\ query' = [query EXCEPT !.results = on_parse_error(@)]
    /\ log' = Append(log, <<"error_parsing_page", Head(query.results)>>)
    /\ UNCHANGED <<cacheVars, ret, mediaVars, treeVars, pc, run, cache_file, remote,
                   posts, idx, success_count, exit_code, converted, updated, loaded>>

(* lines 264-265, 283-324: the properties are read and the blocks asked for  *)
ParsePage ==
    /\ pc = "parse"
    /\ query.results # <<>>
    /\ stack' = <<NewFrame(Head(query.results))>>
    /\ tree' = [status |-> "running", blocks |-> <<>>]
    /\ pc' = "blocks"
    /\ UNCHANGED <<cacheVars, ret, mediaVars, source, failed, last_return, run,
                   cache_file, remote, query, posts, idx, success_count, log,
                   exit_code, converted, updated, loaded>>

(* lines 324-326, 266-267: the blocks are back, the post joins the list *)
AppendPost ==
    /\ pc = "blocks"
    /\ tree.status = "returned"
    /\ LET id == Head(query.results)
       IN  posts' = Append(posts,
                [id |-> id,
                 last_edited |-> fromisoformat(replace_Z(remote[id])),
                 blocks |-> tree.blocks])
    /\ query' = [query EXCEPT !.results = Tail(@)]
    /\ tree' = [status |-> "idle", blocks |-> <<>>]
    /\ pc' = "parse"
    /\ UNCHANGED <<cacheVars, ret, mediaVars, source, stack, failed, last_return, run,
                   cache_file, remote, idx, success_count, log, exit_code, converted,
                   updated, loaded>>

(* lines 269-275, 96: the next page is asked for, or the posts are returned *)
EndOfResults ==
    /\ pc = "parse"
    /\ query.results = <<>>
    /\ pc' = IF query.has_more THEN "query" ELSE "convert"
    /\ UNCHANGED <<cacheVars, ret, mediaVars, treeVars, run, cache_file, remote, query,
                   posts, idx, success_count, log, exit_code, converted, updated, loaded>>

(* lines 115-121, 135-137: convert_post for the next post *)
ConvertPost ==
    /\ pc = "convert"
    /\ idx <= Len(posts)
    /\ \E outcome \in {"true", "false", "raise"} :
          /\ converted' = Append(converted, <<posts[idx].id, outcome>>)
          /\ IF outcome = "true"
             THEN /\ success_count' = success_count + 1
                  /\ cache_data' = update_post_cache(cache_data, posts[idx].id,
                                                     posts[idx].last_edited)
                  /\ recorded' = (posts[idx].id :> posts[idx].last_edited) @@ recorded
                  /\ updated' = updated \cup {posts[idx].id}
             ELSE UNCHANGED <<success_count, cache_data, recorded, updated>>
          /\ IF outcome = "raise"
             THEN Exit(1, <<"sync_failed">>) /\ UNCHANGED idx
             ELSE idx' = idx + 1 /\ UNCHANGED <<pc, log, exit_code>>
    /\ UNCHANGED <<ret, mediaVars, treeVars, run, cache_file, remote, query,
                   posts, loaded>>

(* lines 122-123, 135-137: the else of the for loop runs when the loop ends: *)
(* it reports the last post, and with no posts `post` is unbound             *)
ForElse ==
    /\ pc = "convert"
    /\ idx > Len(posts)
    /\ IF posts = <<>>
       THEN Exit(1, <<"sync_failed">>)
       ELSE /\ log' = Append(log, <<"failed_to_convert", posts[Len(posts)].id>>)
            /\ pc' = "summary"
            /\ UNCHANGED exit_code
    /\ UNCHANGED <<cacheVars, ret, mediaVars, treeVars, run, cache_file, remote, query,
                   posts, idx, success_count, converted, updated, loaded>>

(* lines 126-133: the tally, update_last_sync, save_cache, the exit status *)
Summarize ==
    /\ pc = "summary"
    /\ LET saved == update_last_sync(cache_data, <<"now", run>>)
       IN  /\ cache_data' = saved
           /\ cache_file' = save_cache(saved)
    /\ pc' = "exited"
    /\ log' = Append(log, <<"tally", success_count, Len(posts)>>)
    /\ exit_code' = IF success_count < Len(posts) THEN 1 ELSE 0
    /\ UNCHANGED <<recorded, ret, mediaVars, treeVars, run, remote, query, posts, idx,
                   success_count, converted, updated, loaded>>

(* the source: a published document is edited between two runs *)
EditDocument ==
    /\ pc = "start"
    /\ run > 1
    /\ \E id \in DOMAIN remote, t \in RemoteTimes :
          /\ Instant(fromisoformat(replace_Z(t))) >
                Instant(fromisoformat(replace_Z(remote[id])))
          /\ remote' = [remote EXCEPT ![id] = t]
    /\ UNCHANGED <<cacheVars, ret, mediaVars, treeVars, pc, run, cache_file, query,
                   posts, idx, success_count, log, exit_code, converted, updated, loaded>>

(* the process is terminated in the middle of a run; inside save_cache       *)
(* (line 130) the end falls at any of its points                             *)
Killed ==
    /\ pc \notin {"start", "exited"}
    /\ \E at \in KillPoints :
          cache_file' = IF pc = "summary"
                        THEN save_cache_killed(cache_file,
                                 update_last_sync(cache_data, <<"now", run>>), at)
                        ELSE cache_file
    /\ pc' = "exited"
    /\ log' = <<<<"killed">>>>
    /\ cache_data' = EmptyCache
    /\ query' = [results |-> <<>>, has_more |-> FALSE, next_cursor |-> NoCursor]
    /\ posts' = <<>>
    /\ idx' = 1
    /\ success_count' = 0
    /\ converted' = <<>>
    /\ updated' = {}
    /\ loaded' = EmptyMap
    /\ stack' = <<>>
    /\ tree' = [status |-> "idle", blocks |-> <<>>]
    /\ failed' = {}
    /\ last_return' = [block_id |-> None]
    /\ UNCHANGED <<recorded, ret, mediaVars, source, run, remote, exit_code>>

(* the program is started again *)
NewRun ==
    /\ pc = "exited"
    /\ run < MaxRuns
    /\ run' = run + 1
    /\ pc' = "start"
    /\ cache_data' = EmptyCache
    /\ query' = [results |-> <<>>, has_more |-> FALSE, next_cursor |-> NoCursor]
    /\ posts' = <<>>
    /\ idx' = 1
    /\ success_count' = 0
    /\ log' = <<>>
    /\ exit_code' = None
    /\ converted' = <<>>
    /\ updated' = {}
    /\ loaded' = EmptyMap
    /\ failed' = {}
    /\ last_return' = [block_id |-> None]
    /\ UNCHANGED <<recorded, ret, mediaVars, source, stack, tree, cache_file, remote>>

InitSync ==
    /\ InitCommon
    /\ source \in [children : {SyncHierarchy}, page_size : 1..MaxPageSize,
                    published : {<<>>, Documents}]
    /\ stack = <<>>
    /\ tree = [status |-> "idle", blocks |-> <<>>]
    /\ failed = {}
    /\ last_return = [block_id |-> None]
    /\ pc = "start"
    /\ run = 1
    /\ cache_file = NoFile
    /\ remote = [id \in {"p1", "p2"} |-> RemoteTime(0, 0)]
    /\ query = [results |-> <<>>, has_more |-> FALSE, next_cursor |-> NoCursor]
    /\ posts = <<>>
    /\ idx = 1
    /\ success_count = 0
    /\ log = <<>>
    /\ exit_code = None
    /\ converted = <<>>
    /\ updated = {}
    /\ loaded = EmptyMap

NextSync ==
    \/ Start \/ TestConnection \/ QueryPosts \/ QueryFails \/ ParsePageFails
    \/ ParsePage \/ TreeStep \/ AppendPost \/ EndOfResults \/ ConvertPost
    \/ ForElse \/ Summarize \/ EditDocument \/ NewRun

SpecSync == InitSync /\ [][NextSync]_vars

(* SpecSyncKilled: the runs of SpecSync, any of which may be terminated      *)
(* midway                                                                    *)
NextSyncKilled ==
    \/ Start \/ TestConnection \/ QueryPosts \/ QueryFails \/ ParsePageFails
    \/ ParsePage \/ TreeStep \/ AppendPost \/ EndOfResults \/ ConvertPost
    \/ ForElse \/ Summarize \/ EditDocument \/ NewRun \/ Killed

SpecSyncKilled == InitSync /\ [][NextSyncKilled]_vars

-----------------------------------------------------------------------------
(* Claims about the run.                                                    *)

ConvertedIds == { converted[k][1] : k \in 1..Len(converted) }
ConvertedOk == { converted[k][1] : k \in { j \in 1..Len(converted) : converted[j][2] = "true" } }

(* the decision the cache is there to make, on the records the run loaded *)
NeedsUpdate(post) ==
    \/ post.id \notin DOMAIN loaded
    \/ Instant(post.last_edited) > Instant(fromisoformat(loaded[post.id]))

(* C1 as claimed: when the conversion loop of a run has ended, the posts it  *)
(* converted are those with no cached watermark or a last-modified time      *)
(* later than the cached one; the others were skipped.                       *)
C1_ConvertedIffNeedsUpdate ==
    pc = "summary" =>
        \A i \in 1..Len(posts) : (posts[i].id \in ConvertedIds) <=> NeedsUpdate(posts[i])

(* the run has written the cache file *)
Persisted ==
    /\ pc = "exited"
    /\ cache_file.exists
    /\ load_cache(cache_file).data.last_sync = <<"now", run>>

(* C2 as claimed: when a run has persisted the cache, the documents given a  *)
(* watermark in this run are documents whose conversion succeeded on their   *)
(* complete block tree.                                                      *)
C2_WatermarkOnlyWhenFullyProcessed ==
    Persisted =>
        \A i \in 1..Len(posts) :
            (/\ posts[i].id \in updated
             /\ posts[i].id \in DOMAIN load_cache(cache_file).data.posts
             /\ load_cache(cache_file).data.posts[posts[i].id]
                    = isoformat(posts[i].last_edited))
            => /\ posts[i].id \in ConvertedOk
               /\ posts[i].blocks = FullTree(source, posts[i].id)

-----------------------------------------------------------------------------
(* Claims about how the run ends.                                           *)

Logged(kind) == \E k \in 1..Len(log) : log[k][1] = kind

(* no convert_post call of the run raised *)
NoConversionRaised == \A k \in 1..Len(converted) : converted[k][2] # "raise"

(* the run got past the connection test and its process has ended, every    *)
(* convert_post call having returned                                        *)
RunEnded ==
    /\ pc = "exited"
    /\ ~ Logged("connection_failed")
    /\ ~ Logged("killed")
    /\ NoConversionRaised

(* C14 as claimed: a run that got past the connection test ends with the     *)
(* success/total tally logged, whatever the number of published documents.   *)
C14_TallyAlwaysLogged == RunEnded => Logged("tally")

(* C15 as claimed: a run that completed its pass over the documents has      *)
(* written the store, with the last_sync of this run, to the cache file      *)
(* when the process exits.                                                   *)
C15_CachePersistedAtExit ==
    (RunEnded /\ idx > Len(posts)) =>
        /\ cache_file = save_cache(cache_data)
        /\ cache_data.last_sync = <<"now", run>>

FailureReported(id) ==
    \E k \in 1..Len(log) : log[k][1] = "failed_to_convert" /\ log[k][2] = id

(* C16 as claimed: when the conversion loop has ended, a failure report      *)
(* names a document exactly when its conversion failed.                      *)
C16_FailureReportPerFailedDocument ==
    pc = "summary" =>
        \A k \in 1..Len(converted) :
            FailureReported(converted[k][1]) <=> converted[k][2] = "false"

(* the documents whose parse failed in this run, and the others in order *)
ParseFailed ==
    { log[k][2] : k \in { j \in 1..Len(log) : log[j][1] = "error_parsing_page" } }
Survivors == SelectSeq(source.published, LAMBDA id : id \notin ParseFailed)

(* C17: in a run whose documents query did not fail, a parse error skips     *)
(* only its own document: the posts handed to the conversion loop are all    *)
(* the other published documents in order; when the loop has ended each of   *)
(* them was converted, and the tally counts them.                            *)
C17_ParseErrorSkipsOneDocument ==
    ~ Logged("error_fetching_posts") =>
        /\ (pc \in {"convert", "summary"} \/ (pc = "exited" /\ Logged("tally")))
              => Ids(posts) = Survivors
        /\ pc = "summary" =>
              \A i \in 1..Len(Survivors) : Survivors[i] \in ConvertedIds
        /\ \A k \in 1..Len(log) :
              log[k][1] = "tally" => log[k][3] = Len(Survivors)

(* p1, alone on the first page, failed to parse: p2, on the next page, was   *)
(* parsed, converted and counted                                             *)
C17_Witness ==
    /\ pc = "exited"
    /\ source.page_size = 1
    /\ ParseFailed = {"p1"}
    /\ Ids(posts) = <<"p2">>
    /\ ConvertedOk = {"p2"}
    /\ Logged("tally")
    /\ log[Len(log)] = <<"tally", 1, 1>>

(* the remote calls of this run that failed: list calls for block children  *)
(* (each page is asked for once) and the documents query                    *)
RemoteFailures ==
    Cardinality(failed)
    + Cardinality({ k \in 1..Len(log) : log[k][1] = "error_fetching_posts" })

(* C22 as claimed: a failure of a single remote call is retried before it    *)
(* surfaces, so a run in which one remote call failed once, and no other,    *)
(* still lists every published document with its complete block tree.       *)
C22_SingleFailureRetried ==
    (pc = "convert" /\ RemoteFailures = 1 /\ ParseFailed = {}) =>
        /\ Ids(posts) = source.published
        /\ \A i \in 1..Len(posts) : posts[i].blocks = FullTree(source, posts[i].id)

-----------------------------------------------------------------------------
(* Claims about the persisted state across runs.                            *)

(* the store the next run would load *)
PersistedStore(file) == load_cache(file).data

(* no record of old is missing from new, no watermark of new is earlier *)
NotEarlier(old, new) ==
    /\ \A id \in DOMAIN old.posts :
          /\ id \in DOMAIN new.posts
          /\ Instant(fromisoformat(new.posts[id])) >= Instant(fromisoformat(old.posts[id]))
    /\ DOMAIN old.media \subseteq DOMAIN new.media

(* C24 as claimed: over any sequence of runs, runs terminated midway          *)
(* included, no step moves a document's persisted watermark to an earlier    *)
(* time or removes a record from the persisted state.                        *)
C24_PersistedStateMonotonic ==
    [][NotEarlier(PersistedStore(cache_file), PersistedStore(cache_file'))]_vars

-----------------------------------------------------------------------------
(* Claims about the termination of tree retrieval.                          *)

(* C26 as claimed: _get_page_blocks terminates for every source with         *)
(* finitely many pages per container, one that reports has_more = true with  *)
(* no next cursor and failing responses included: a call that runs returns   *)
(* (or raises).                                                              *)
C26_RetrievalTerminates ==
    (tree.status = "running") ~> (tree.status \in {"returned", "raised"})

=============================================================================
